---- MODULE Spec2Model ----
(***************************************************************************)
(* Model of the stopwatch program (src/main.c): the interval parser        *)
(* parse_time_interval, the option loop parse_args, and main's timer and   *)
(* signal driven display loop.                                             *)
(***************************************************************************)
EXTENDS Integers, Sequences, FiniteSets, TLC

VARIABLES
    value,              \* parse_time_interval: the string being parsed
    pst,                \* parse_time_interval: locals, *result, position
    pc,                 \* main: position in the code
    args,               \* main: the -d option arguments getopt has not returned yet
    refresh_interval,   \* main: struct timespec refresh_interval
    output,             \* main: struct output, "tty" or "notty"
    watch,              \* main: struct stopwatch, with the start instant
    sigmask,            \* process signal mask (the blocked signals)
    pending,            \* for each signal, how many are pending for the process
    timer,              \* the kernel's POSIX timer of this process
    refresh_timer,      \* main: timer_t refresh_timer
    now,                \* CLOCK_MONOTONIC, in nanoseconds since stopwatch_init
    curr_signal,        \* main: int curr_signal
    curr_time,          \* main: struct timespec curr_time
    delivered,          \* what sigwaitinfo has returned, in order, each with
                        \* the signals pending and the overruns at that moment
    sink,               \* what has been written to stdout, in order
    stderr,             \* what has been written to stderr, in order
    status              \* the exit status, once the process has ended

vars == << value, pst, pc, args, refresh_interval, output, watch, sigmask,
           pending, timer, refresh_timer, now, curr_signal, curr_time,
           delivered, sink, stderr, status >>

mainVars == << pc, args, refresh_interval, output, watch, sigmask,
               pending, timer, refresh_timer, now, curr_signal, curr_time,
               delivered, sink, stderr, status >>

parseVars == << value, pst >>

----------------------------------------------------------------------------
(* Bounds of the model.                                                     *)

MaxLen == 3             \* every string over Chars up to this length is parsed
MaxIntDigits == 20      \* longest run of integer digits parsed
MaxFracDigits == 10     \* longest run of fractional digits parsed
MaxClock == 4           \* the clock stops after this many ClockStep
MaxOpts == 2            \* most options on the command line
MaxSeconds == 3723      \* longest elapsed time rendered, in seconds

----------------------------------------------------------------------------
(* Program constants.                                                       *)

NSEC_PER_MSEC == 1000000
NSEC_PER_DECISEC == 100000000
NSEC_PER_SEC == 10 * NSEC_PER_DECISEC

SIGINT == 2
TIMER_SIGNAL == 34

----------------------------------------------------------------------------
(* C strings and the type long.                                             *)

Digits == << "0", "1", "2", "3", "4", "5", "6", "7", "8", "9" >>

NUL == "NUL"

isdigit(c) == \E k \in 1..10 : Digits[k] = c

\* c - '0' for a digit character c
DigitVal(c) == (CHOOSE k \in 1..10 : Digits[k] = c) - 1

\* the character code of a digit character ('0' is 48)
CharCode(c) == 48 + DigitVal(c)

\* value[i] of a NUL-terminated string, i counted from 0
CharAt(s, i) == IF i < Len(s) THEN s[i + 1] ELSE NUL

\* A long is 64 bits wide: four 16-bit limbs, least significant first, holding
\* the two's complement bit pattern.
LimbBase == 2 ^ 16

LongZero == << 0, 0, 0, 0 >>

LongIsNegative(x) == x[4] >= LimbBase \div 2

LongIsZero(x) == x = LongZero

\* the exact value of x * 10 + a for the unsigned pattern x: five limbs
Mul10Add(x, a) ==
    LET r1 == x[1] * 10 + a
        r2 == x[2] * 10 + (r1 \div LimbBase)
        r3 == x[3] * 10 + (r2 \div LimbBase)
        r4 == x[4] * 10 + (r3 \div LimbBase)
    IN  << r1 % LimbBase, r2 % LimbBase, r3 % LimbBase, r4 % LimbBase,
           r4 \div LimbBase >>

\* the 64 bits that x * 10 + d leaves in a long
WrapMul10Add(x, d) == SubSeq(Mul10Add(x, d), 1, 4)

\* integer_part * 10 + value[i] - '0' leaves the range of long: the
\* intermediate integer_part * 10 + value[i] exceeds LONG_MAX
SignedOverflow(x, c) ==
    LET e == Mul10Add(x, CharCode(c))
    IN  e[5] > 0 \/ e[4] >= LimbBase \div 2

----------------------------------------------------------------------------
(* parse_time_interval, one definition per block of the function.  A parser *)
(* state holds the locals, the caller's *result and the position.           *)

ParserStart(result) ==
    [ pc |-> "int_loop", i |-> 0, integer_part |-> LongZero,
      fractional_part |-> 0, weight |-> 0, result |-> result,
      overflowed |-> FALSE ]

\* for (; isdigit(value[i]); i++) integer_part = integer_part * 10 + value[i] - '0';
\* signed overflow is undefined: the build either wraps or traps
IntLoopWrap(x, c) == WrapMul10Add(x, DigitVal(c))

IntLoop(v, st) ==
    IF isdigit(CharAt(v, st.i))
    THEN IF ~st.overflowed /\ SignedOverflow(st.integer_part, CharAt(v, st.i))
         THEN { [st EXCEPT !.integer_part = IntLoopWrap(@, CharAt(v, st.i)),
                           !.i = @ + 1, !.overflowed = TRUE],
                [st EXCEPT !.pc = "trap"] }
         ELSE { [st EXCEPT !.integer_part = IntLoopWrap(@, CharAt(v, st.i)),
                           !.i = @ + 1] }
    ELSE { [st EXCEPT !.pc = "switch1"] }

\* Switch1 if a '.' with no integer digit before it were rejected
Switch1IntegerRequired(v, st) ==
    CASE CharAt(v, st.i) = "." ->
            IF st.i = 0 THEN { [st EXCEPT !.pc = "error"] }
                        ELSE { [st EXCEPT !.i = @ + 1, !.pc = "frac_init"] }
      [] CharAt(v, st.i) = NUL ->
            IF st.i = 0 THEN { [st EXCEPT !.pc = "error"] }
                        ELSE { [st EXCEPT !.pc = "success"] }
      [] OTHER -> { [st EXCEPT !.pc = "error"] }

\* Switch1 if the '.' and the character after it were skipped
Switch1SkipsTwo(v, st) ==
    CASE CharAt(v, st.i) = "." -> { [st EXCEPT !.i = @ + 2, !.pc = "frac_init"] }
      [] CharAt(v, st.i) = NUL ->
            IF st.i = 0 THEN { [st EXCEPT !.pc = "error"] }
                        ELSE { [st EXCEPT !.pc = "success"] }
      [] OTHER -> { [st EXCEPT !.pc = "error"] }

\* switch (value[i]) after the integer part
Switch1(v, st) ==
    CASE CharAt(v, st.i) = "." -> { [st EXCEPT !.i = @ + 1, !.pc = "frac_init"] }
      [] CharAt(v, st.i) = NUL ->
            IF st.i = 0 THEN { [st EXCEPT !.pc = "error"] }
                        ELSE { [st EXCEPT !.pc = "success"] }
      [] OTHER -> { [st EXCEPT !.pc = "error"] }

\* FracInit if the first fractional digit weighed two deciseconds
FracInitDoubleWeight(v, st) ==
    { [st EXCEPT !.weight = 2 * NSEC_PER_DECISEC, !.pc = "frac_loop"] }

\* weight = NSEC_PER_DECISEC;
FracInit(v, st) == { [st EXCEPT !.weight = NSEC_PER_DECISEC, !.pc = "frac_loop"] }

\* one iteration of the fractional loop
FracLoop(v, st) ==
    IF isdigit(CharAt(v, st.i))
    THEN LET f == st.fractional_part + DigitVal(CharAt(v, st.i)) * st.weight
             w == st.weight \div 10
         IN  IF w = 0
             THEN { [st EXCEPT !.fractional_part = f, !.weight = w,
                               !.pc = "success"] }
             ELSE { [st EXCEPT !.fractional_part = f, !.weight = w,
                               !.i = @ + 1] }
    ELSE { [st EXCEPT !.pc = "switch2"] }

\* Switch2 if a '.' with no fractional digit after it were rejected
Switch2FractionRequired(v, st) ==
    CASE CharAt(v, st.i) = NUL ->
            IF CharAt(v, st.i - 1) = "." THEN { [st EXCEPT !.pc = "error"] }
                                         ELSE { [st EXCEPT !.pc = "success"] }
      [] OTHER -> { [st EXCEPT !.pc = "error"] }

\* switch (value[i]) after the fractional part
Switch2(v, st) ==
    CASE CharAt(v, st.i) = NUL ->
            IF st.i = 1 THEN { [st EXCEPT !.pc = "error"] }
                        ELSE { [st EXCEPT !.pc = "success"] }
      [] OTHER -> { [st EXCEPT !.pc = "error"] }

\* success: result->tv_sec = integer_part; result->tv_nsec = fractional_part;
Success(v, st) ==
    { [st EXCEPT !.result = [tv_sec |-> st.integer_part,
                             tv_nsec |-> st.fractional_part],
                 !.pc = "return_0"] }

\* Error if the parts parsed so far were stored before the return
ErrorWritesResult(v, st) ==
    { [st EXCEPT !.result = [tv_sec |-> st.integer_part,
                             tv_nsec |-> st.fractional_part],
                 !.pc = "return_m1"] }

\* return -1;
Error(v, st) == { [st EXCEPT !.pc = "return_m1"] }

ParserDone(st) == st.pc \in { "return_0", "return_m1", "trap" }

ParserStep(v, st) ==
    CASE st.pc = "int_loop"  -> IntLoop(v, st)
      [] st.pc = "switch1"   -> Switch1(v, st)
      [] st.pc = "frac_init" -> FracInit(v, st)
      [] st.pc = "frac_loop" -> FracLoop(v, st)
      [] st.pc = "switch2"   -> Switch2(v, st)
      [] st.pc = "success"   -> Success(v, st)
      [] st.pc = "error"     -> Error(v, st)
      [] OTHER               -> {}

RECURSIVE ParserRun(_, _)
ParserRun(v, st) ==
    IF ParserDone(st) THEN { st }
    ELSE UNION { ParserRun(v, s) : s \in ParserStep(v, st) }

\* the outcomes of parse_time_interval(v, &result)
parse_time_interval(v, result) == ParserRun(v, ParserStart(result))

----------------------------------------------------------------------------
(* The strings given to parse_time_interval.                                *)

Chars == { "0", "1", "5", "9", ".", "x", "-", " " }

RECURSIVE Strings(_)
Strings(n) ==
    IF n = 0 THEN { << >> }
    ELSE LET shorter == Strings(n - 1)
         IN  shorter \cup { Append(s, c) : s \in shorter, c \in Chars }

RECURSIVE Rep(_, _)
Rep(c, n) == IF n = 0 THEN << >> ELSE << c >> \o Rep(c, n - 1)

RunDigits == { "1", "9" }

Heads == { << >>, << "0" >>, << "2" >> }

Tails == { << >>, << "x" >>, << "." >>, << "5" >>, << ".", "5" >> }

LongIntegers ==
    { Rep(d, n) \o t : d \in RunDigits, n \in 1..MaxIntDigits, t \in Tails }

LongFractions ==
    { h \o << "." >> \o Rep(d, n) \o t :
        h \in Heads, d \in RunDigits, n \in 1..MaxFracDigits, t \in Tails }

Examples ==
    { << "2", ".", "1", "2", "3", "4", "5", "6", "7", "8", "9" >>,
      << "1", ".", "1", "2", "3", "4", "5", "6", "7", "8", "9", "x" >>,
      << "9", "2", "2", "3", "3", "7", "2", "0", "3", "6", "8", "5", "4",
         "7", "7", "5", "8", "0", "7" >>,
      << "9", "2", "2", "3", "3", "7", "2", "0", "3", "6", "8", "5", "4",
         "7", "7", "5", "8", "0", "8" >>,
      << "a", "b", "c" >>,
      << "1", ".", "2", ".", "3" >> }

Inputs == Strings(MaxLen) \cup LongIntegers \cup LongFractions \cup Examples

\* a variable of main that has not been assigned yet (refresh_interval, also
\* not assigned before parse_args, starts as a timespec of zeros)
Unset == "unset"

\* no timer has been created. Of a timer the kernel keeps the next expiry
\* (it_value, on the clock), the period and the overruns; the record also
\* keeps the timer_t last given to timer_settime, when the timer was armed
\* and how many times it has expired since
NoTimer == [ created |-> FALSE, armed |-> FALSE, it_value |-> 0,
             it_interval |-> 0, overrun |-> 0, settime_id |-> "unset",
             armed_at |-> 0, expirations |-> 0 ]

\* no signal is pending
NonePending == [ sig \in { SIGINT, TIMER_SIGNAL } |-> 0 ]

\* the refresh interval parse_args sets before the options are read
DefaultInterval == [ tv_sec |-> LongZero, tv_nsec |-> 100 * NSEC_PER_MSEC ]

----------------------------------------------------------------------------
(* The parser run on its own, one block per step, on every string of Inputs. *)

MainStart ==
    /\ pc = "start"
    /\ refresh_interval = [ tv_sec |-> LongZero, tv_nsec |-> 0 ]
    /\ output = Unset
    /\ watch = [ initialized |-> FALSE, started |-> FALSE, start |-> 0 ]
    /\ sigmask = {}
    /\ pending = NonePending
    /\ timer = NoTimer
    /\ refresh_timer = Unset
    /\ now = 0
    /\ curr_signal = 0
    /\ curr_time = [ tv_sec |-> 0, tv_nsec |-> 0 ]
    /\ delivered = << >>
    /\ sink = << >>
    /\ stderr = << >>
    /\ status = 0

InitParse ==
    /\ value \in Inputs
    /\ pst = ParserStart(DefaultInterval)
    /\ args = << >>
    /\ MainStart

ParseBlock(p) ==
    /\ pst.pc = p
    /\ pst' \in ParserStep(value, pst)
    /\ UNCHANGED << value, mainVars >>

PIntLoop == ParseBlock("int_loop")
PSwitch1 == ParseBlock("switch1")
PFracInit == ParseBlock("frac_init")
PFracLoop == ParseBlock("frac_loop")
PSwitch2 == ParseBlock("switch2")
PSuccess == ParseBlock("success")
PError == ParseBlock("error")

NextParse ==
    \/ PIntLoop
    \/ PSwitch1
    \/ PFracInit
    \/ PFracLoop
    \/ PSwitch2
    \/ PSuccess
    \/ PError

SpecParse == InitParse /\ [][NextParse]_vars

\* the function runs on: a block that can be executed is executed
FairSpecParse == SpecParse /\ WF_vars(NextParse)

----------------------------------------------------------------------------
(* The command line.                                                        *)

OptArgs ==
    { << "0" >>, << ".", "2" >>, << "x" >>, Rep("9", MaxIntDigits) }

\* what getopt returns for one element of the command line
Options ==
    { [ opt |-> "d", optarg |-> a ] : a \in OptArgs }
        \cup { [ opt |-> o, optarg |-> << >> ] : o \in { "h", "?", ":" } }

RECURSIVE OptionLists(_)
OptionLists(n) ==
    IF n = 0 THEN { << >> }
    ELSE LET shorter == OptionLists(n - 1)
         IN  shorter \cup { Append(l, o) : l \in shorter, o \in Options }

\* the options, and after them possibly an argument that is not an option
Positional == [ opt |-> "positional", optarg |-> << >> ]

ArgLists ==
    { l \o t : l \in OptionLists(MaxOpts), t \in { << >>, << Positional >> } }

----------------------------------------------------------------------------
(* The clock, the signals and the timer of the process.                     *)

ClockStep == NSEC_PER_DECISEC

Horizon == MaxClock * ClockStep

Alive == pc \notin { "exited", "killed", "aborted" }

\* a timespec the kernel accepts
ValidTimespec(ts) ==
    /\ ~LongIsNegative(ts.tv_sec)
    /\ ts.tv_nsec >= 0
    /\ ts.tv_nsec < NSEC_PER_SEC

\* a timespec in nanoseconds; one second and more lies beyond Horizon
TimespecNs(ts) == IF LongIsZero(ts.tv_sec) THEN ts.tv_nsec ELSE NSEC_PER_SEC

\* DequeueSignal if the signal with the highest number were taken first
DequeueHighest(p) ==
    CHOOSE sig \in DOMAIN p :
        /\ p[sig] > 0
        /\ \A other \in DOMAIN p : p[other] > 0 => sig >= other

\* the signal sigwaitinfo takes from the pending ones: the one with the lowest
\* number, so a standard signal before a real-time signal
DequeueSignal(p) ==
    CHOOSE sig \in DOMAIN p :
        /\ p[sig] > 0
        /\ \A other \in DOMAIN p : p[other] > 0 => sig <= other

\* the identifier timer_create stores in refresh_timer
TimerId == "timer"

\* &refresh_timer, the address of main's variable
AddressOfRefreshTimer == "&refresh_timer"

\* the timers a timer_t argument may designate: a value that is not the
\* identifier of a timer may be taken for the timer of the process or for none
TimersDesignated(arg) ==
    IF arg = TimerId THEN { TimerId } ELSE { TimerId, "none" }

\* the user presses Ctrl-C: a blocked SIGINT becomes pending (once, as a
\* standard signal), an unblocked one terminates the process
Interrupt ==
    /\ Alive
    /\ IF SIGINT \in sigmask
       THEN /\ pending' = [pending EXCEPT ![SIGINT] = 1]
            /\ UNCHANGED << pc, status >>
       ELSE /\ pc' = "killed"
            /\ status' = SIGINT
            /\ UNCHANGED pending
    /\ UNCHANGED << parseVars, curr_time, args, refresh_interval, output, watch, sigmask,
                    timer, refresh_timer, now, curr_signal, delivered, sink,
                    stderr >>

\* time passes, up to the next expiry of the timer at most; the origin of the
\* clock is the moment the stopwatch is initialised
ClockAdvance ==
    /\ Alive
    /\ watch.initialized
    /\ now < Horizon
    /\ ~(timer.armed /\ timer.it_value <= now)
    /\ now' = IF timer.armed /\ timer.it_value < now + ClockStep
              THEN timer.it_value
              ELSE now + ClockStep
    /\ UNCHANGED << parseVars, curr_time, pc, args, refresh_interval, output, watch,
                    sigmask, pending, timer, refresh_timer, curr_signal,
                    delivered, sink, stderr, status >>

\* TimerExpire if every expiry queued one more signal
TimerExpireQueues ==
    /\ Alive
    /\ timer.armed
    /\ timer.it_value = now
    /\ timer' = [timer EXCEPT !.it_value = @ + timer.it_interval,
                              !.expirations = @ + 1]
    /\ pending' = [pending EXCEPT ![TIMER_SIGNAL] = @ + 1]
    /\ UNCHANGED << pc, status >>
    /\ UNCHANGED << parseVars, curr_time, args, refresh_interval, output, watch,
                    sigmask, refresh_timer, now, curr_signal, delivered, sink,
                    stderr >>

\* the timer expires and is reloaded with its interval: its signal is queued
\* unless one of this timer is queued already (an overrun); a signal that is
\* not blocked is delivered at once and terminates the process
TimerExpire ==
    /\ Alive
    /\ timer.armed
    /\ timer.it_value = now
    /\ CASE TIMER_SIGNAL \notin sigmask ->
              /\ timer' = [timer EXCEPT !.it_value = @ + timer.it_interval,
                                        !.expirations = @ + 1]
              /\ pc' = "killed"
              /\ status' = TIMER_SIGNAL
              /\ UNCHANGED pending
         [] TIMER_SIGNAL \in sigmask /\ pending[TIMER_SIGNAL] > 0 ->
              /\ timer' = [timer EXCEPT !.it_value = @ + timer.it_interval,
                                        !.expirations = @ + 1,
                                        !.overrun = @ + 1]
              /\ UNCHANGED << pending, pc, status >>
         [] OTHER ->
              /\ timer' = [timer EXCEPT !.it_value = @ + timer.it_interval,
                                        !.expirations = @ + 1]
              /\ pending' = [pending EXCEPT ![TIMER_SIGNAL] = @ + 1]
              /\ UNCHANGED << pc, status >>
    /\ UNCHANGED << parseVars, curr_time, args, refresh_interval, output, watch,
                    sigmask, refresh_timer, now, curr_signal, delivered, sink,
                    stderr >>

----------------------------------------------------------------------------
(* The stopwatch (stopwatch.h) and the two outputs.                         *)

\* stopwatch_init succeeds: the stopwatch can read its clock
stopwatch_init(w) == [w EXCEPT !.initialized = TRUE]

\* stopwatch_start: the start instant is the current time of the clock
stopwatch_start(w, clock) == [w EXCEPT !.started = TRUE, !.start = clock]

\* stopwatch_get_time: the time elapsed since the start instant, never negative
stopwatch_get_time(w, clock) ==
    LET e == IF clock < w.start THEN 0 ELSE clock - w.start
    IN  [ tv_sec |-> e \div NSEC_PER_SEC, tv_nsec |-> e % NSEC_PER_SEC ]

\* tty_output_update if the minutes were not reduced modulo 60
tty_output_update_minutes(ts) ==
    [ call |-> "printf", h |-> ts.tv_sec \div 3600, m |-> ts.tv_sec \div 60,
      s |-> ts.tv_sec % 60, ms |-> ts.tv_nsec \div NSEC_PER_MSEC, end |-> "\r" ]

\* the four long-to-int conversions keep the value: tv_sec / 3600 fits an int
\* for every elapsed time up to MaxSeconds
tty_output_update(ts) ==
    [ call |-> "printf", h |-> ts.tv_sec \div 3600, m |-> (ts.tv_sec \div 60) % 60,
      s |-> ts.tv_sec % 60, ms |-> ts.tv_nsec \div NSEC_PER_MSEC, end |-> "\r" ]

notty_output_update(ts) ==
    [ call |-> "printf", h |-> ts.tv_sec \div 3600, m |-> (ts.tv_sec \div 60) % 60,
      s |-> ts.tv_sec % 60, ms |-> ts.tv_nsec \div NSEC_PER_MSEC, end |-> "\n" ]

\* output.update(&curr_time)
OutputUpdate(o, ts) ==
    IF o = "tty" THEN tty_output_update(ts) ELSE notty_output_update(ts)

----------------------------------------------------------------------------
(* main, one action per step.                                               *)

\* the process ends with the given status after writing to stderr
Exit(code, message) ==
    /\ pc' = "exited"
    /\ status' = code
    /\ stderr' = stderr \o message

\* the step goes on to the given position
Goto(label) ==
    /\ pc' = label
    /\ UNCHANGED << status, stderr >>

\* isatty(fileno(stdout)) chooses the output; output.init()
OutputInit ==
    /\ pc = "start"
    /\ output' \in { "tty", "notty" }
    /\ Goto("parse_args")
    /\ UNCHANGED << parseVars, curr_time, args, refresh_interval, watch, sigmask, pending,
                    timer, refresh_timer, now, curr_signal, delivered, sink >>

\* parse_args: the default value is set before the options are read
ParseArgsDefault ==
    /\ pc = "parse_args"
    /\ refresh_interval' = DefaultInterval
    /\ Goto("getopt")
    /\ UNCHANGED << parseVars, curr_time, args, output, watch, sigmask, pending, timer,
                    refresh_timer, now, curr_signal, delivered, sink >>

\* case 'd': parse_time_interval(optarg, refresh_interval), usage() on error
GetoptD ==
    /\ pc = "getopt"
    /\ args # << >>
    /\ Head(args).opt = "d"
    /\ \E o \in parse_time_interval(Head(args).optarg, refresh_interval) :
        /\ refresh_interval' = o.result
        /\ CASE o.pc = "return_0"  -> /\ args' = Tail(args)
                                      /\ Goto("getopt")
             [] o.pc = "return_m1" -> /\ Exit(1, << "invalid value for option", "usage" >>)
                                      /\ UNCHANGED args
             [] OTHER              -> /\ Goto("aborted")
                                      /\ UNCHANGED args
    /\ UNCHANGED << parseVars, curr_time, output, watch, sigmask, pending, timer,
                    refresh_timer, now, curr_signal, delivered, sink >>

\* case 'h', '?' and ':': usage()
GetoptUsage ==
    /\ pc = "getopt"
    /\ args # << >>
    /\ CASE Head(args).opt = "h" -> Exit(1, << "usage" >>)
         [] Head(args).opt = "?" -> Exit(1, << "unrecognized option", "usage" >>)
         [] Head(args).opt = ":" -> Exit(1, << "option requires an argument", "usage" >>)
         [] OTHER -> FALSE
    /\ UNCHANGED << parseVars, curr_time, args, refresh_interval, output, watch, sigmask,
                    pending, timer, refresh_timer, now, curr_signal, delivered,
                    sink >>

\* getopt returns -1; usage() if optind != argc
GetoptEnd ==
    /\ pc = "getopt"
    /\ \/ /\ args = << >>
          /\ Goto("stopwatch_init")
       \/ /\ args # << >>
          /\ Head(args).opt = "positional"
          /\ Exit(1, << "unexpected argument", "usage" >>)
    /\ UNCHANGED << parseVars, curr_time, args, refresh_interval, output, watch, sigmask,
                    pending, timer, refresh_timer, now, curr_signal, delivered,
                    sink >>

\* StopwatchInit if main went on after a failure of stopwatch_init
StopwatchInitNoReturn ==
    /\ pc = "stopwatch_init"
    /\ \/ /\ watch' = stopwatch_init(watch)
          /\ Goto("stopwatch_start")
       \/ /\ pc' = "stopwatch_start"
          /\ stderr' = stderr \o << "couldn't init stopwatch" >>
          /\ UNCHANGED << watch, status >>
    /\ UNCHANGED << parseVars, curr_time, args, refresh_interval, output, sigmask,
                    pending, timer, refresh_timer, now, curr_signal, delivered,
                    sink >>

\* if (stopwatch_init(&watch, CLOCKID)) return -1;
StopwatchInit ==
    /\ pc = "stopwatch_init"
    /\ \/ /\ watch' = stopwatch_init(watch)
          /\ Goto("stopwatch_start")
       \/ /\ Exit(-1, << "couldn't init stopwatch" >>)
          /\ UNCHANGED watch
    /\ UNCHANGED << parseVars, curr_time, args, refresh_interval, output, sigmask,
                    pending, timer, refresh_timer, now, curr_signal, delivered,
                    sink >>

\* stopwatch_start(&watch);
StopwatchStart ==
    /\ pc = "stopwatch_start"
    /\ watch' = stopwatch_start(watch, now)
    /\ Goto("sigprocmask")
    /\ UNCHANGED << parseVars, curr_time, args, refresh_interval, output, sigmask, pending,
                    timer, refresh_timer, now, curr_signal, delivered, sink >>

\* Sigprocmask if SIGINT were left out of the set
SigprocmaskTimerOnly ==
    /\ pc = "sigprocmask"
    /\ sigmask' = sigmask \cup { TIMER_SIGNAL }
    /\ Goto("timer_create")
    /\ UNCHANGED << parseVars, curr_time, args, refresh_interval, output, watch, pending,
                    timer, refresh_timer, now, curr_signal, delivered, sink >>

\* sigprocmask(SIG_BLOCK, &sigmask, NULL) with SIGINT and TIMER_SIGNAL
Sigprocmask ==
    /\ pc = "sigprocmask"
    /\ sigmask' = sigmask \cup { SIGINT, TIMER_SIGNAL }
    /\ Goto("timer_create")
    /\ UNCHANGED << parseVars, curr_time, args, refresh_interval, output, watch, pending,
                    timer, refresh_timer, now, curr_signal, delivered, sink >>

\* if (timer_create(CLOCKID, &sevp, &refresh_timer) == -1) return -1;
TimerCreate ==
    /\ pc = "timer_create"
    /\ \/ /\ timer' = [timer EXCEPT !.created = TRUE]
          /\ refresh_timer' = TimerId
          /\ Goto("timer_settime")
       \/ /\ Exit(-1, << "could't init refresh timer" >>)
          /\ UNCHANGED << timer, refresh_timer >>
    /\ UNCHANGED << parseVars, curr_time, args, refresh_interval, output, watch, sigmask,
                    pending, now, curr_signal, delivered, sink >>

\* timer_settime(timerid, 0, &timer_spec, NULL) with it_value = it_interval =
\* spec: fails for a timer that does not exist and for a timespec that is not
\* valid; a zero it_value disarms the timer
timer_settime(timerid, spec) ==
    \E t \in TimersDesignated(timerid) :
        IF t = TimerId /\ timer.created /\ ValidTimespec(spec)
        THEN /\ timer' = [timer EXCEPT !.armed = TimespecNs(spec) # 0,
                                       !.it_value = now + TimespecNs(spec),
                                       !.it_interval = TimespecNs(spec),
                                       !.settime_id = timerid,
                                       !.armed_at = now,
                                       !.expirations = 0]
             /\ Goto("loop")
        ELSE /\ timer' = [timer EXCEPT !.settime_id = timerid]
             /\ Exit(-1, << "could't init refresh timer" >>)

\* if (timer_settime(&refresh_timer, 0, &timer_spec, NULL) == -1) return -1;
TimerSettime ==
    /\ pc = "timer_settime"
    /\ timer_settime(AddressOfRefreshTimer, refresh_interval)
    /\ UNCHANGED << parseVars, curr_time, args, refresh_interval, output, watch, sigmask,
                    pending, refresh_timer, now, curr_signal, delivered, sink >>

\* curr_signal = 0;
LoopInit ==
    /\ pc = "loop"
    /\ curr_signal' = 0
    /\ Goto("while")
    /\ UNCHANGED << parseVars, curr_time, args, refresh_interval, output, watch, sigmask,
                    pending, timer, refresh_timer, now, delivered, sink >>

\* While if the loop never ended
WhileForever ==
    /\ pc = "while"
    /\ Goto("sigwaitinfo")
    /\ UNCHANGED << parseVars, curr_time, args, refresh_interval, output, watch, sigmask,
                    pending, timer, refresh_timer, now, curr_signal, delivered,
                    sink >>

\* while (curr_signal != SIGINT)
While ==
    /\ pc = "while"
    /\ Goto(IF curr_signal # SIGINT THEN "sigwaitinfo" ELSE "putchar")
    /\ UNCHANGED << parseVars, curr_time, args, refresh_interval, output, watch, sigmask,
                    pending, timer, refresh_timer, now, curr_signal, delivered,
                    sink >>

\* Sigwaitinfo if the set waited for held TIMER_SIGNAL only
SigwaitinfoTimerOnly ==
    /\ pc = "sigwaitinfo"
    /\ pending[TIMER_SIGNAL] > 0
    /\ curr_signal' = TIMER_SIGNAL
    /\ pending' = [pending EXCEPT ![TIMER_SIGNAL] = @ - 1]
    /\ delivered' = Append(delivered, [ signal |-> TIMER_SIGNAL,
                                        pending |-> pending,
                                        overrun |-> timer.overrun ])
    /\ timer' = [timer EXCEPT !.overrun = 0]
    /\ Goto("update")
    /\ UNCHANGED << parseVars, curr_time, args, refresh_interval, output, watch, sigmask,
                    refresh_timer, now, sink >>

\* curr_signal = sigwaitinfo(&sigmask, NULL) returns a pending signal of the set
Sigwaitinfo ==
    /\ pc = "sigwaitinfo"
    /\ \E s \in { SIGINT, TIMER_SIGNAL } : pending[s] > 0
    /\ LET sig == DequeueSignal(pending)
       IN  /\ curr_signal' = sig
           /\ pending' = [pending EXCEPT ![sig] = @ - 1]
           /\ delivered' = Append(delivered, [ signal |-> sig, pending |-> pending,
                                               overrun |-> timer.overrun ])
           /\ timer' = IF sig = TIMER_SIGNAL
                       THEN [timer EXCEPT !.overrun = 0]
                       ELSE timer
    /\ Goto("update")
    /\ UNCHANGED << parseVars, curr_time, args, refresh_interval, output, watch, sigmask,
                    refresh_timer, now, sink >>

\* SigwaitinfoError if main went on after the message
SigwaitinfoErrorNoReturn ==
    /\ pc = "sigwaitinfo"
    /\ curr_signal' = -1
    /\ pc' = "update"
    /\ stderr' = stderr \o << "error calling sigwaitinfo" >>
    /\ UNCHANGED << parseVars, curr_time, args, refresh_interval, output, watch, sigmask,
                    pending, timer, refresh_timer, now, delivered, sink, status >>

\* sigwaitinfo returns -1: error calling sigwaitinfo, return -1
SigwaitinfoError ==
    /\ pc = "sigwaitinfo"
    /\ curr_signal' = -1
    /\ Exit(-1, << "error calling sigwaitinfo" >>)
    /\ UNCHANGED << parseVars, curr_time, args, refresh_interval, output, watch, sigmask,
                    pending, timer, refresh_timer, now, delivered, sink >>

\* Update if the loop armed the timer again after each render
UpdateRearms ==
    /\ pc = "update"
    /\ curr_time' = stopwatch_get_time(watch, now)
    /\ sink' = Append(sink, OutputUpdate(output, curr_time'))
    /\ timer' = IF timer.armed
                THEN [timer EXCEPT !.it_value = now + timer.it_interval]
                ELSE timer
    /\ Goto("while")
    /\ UNCHANGED << parseVars, args, refresh_interval, output, watch, sigmask,
                    pending, refresh_timer, now, curr_signal, delivered >>

\* Update if only a Tick were rendered
UpdateTickOnly ==
    /\ pc = "update"
    /\ curr_time' = IF curr_signal = TIMER_SIGNAL
                    THEN stopwatch_get_time(watch, now)
                    ELSE curr_time
    /\ sink' = IF curr_signal = TIMER_SIGNAL
               THEN Append(sink, OutputUpdate(output, curr_time'))
               ELSE sink
    /\ Goto("while")
    /\ UNCHANGED << parseVars, args, refresh_interval, output, watch, sigmask,
                    pending, timer, refresh_timer, now, curr_signal, delivered >>

\* stopwatch_get_time(&watch, &curr_time); output.update(&curr_time);
Update ==
    /\ pc = "update"
    /\ curr_time' = stopwatch_get_time(watch, now)
    /\ sink' = Append(sink, OutputUpdate(output, curr_time'))
    /\ Goto("while")
    /\ UNCHANGED << parseVars, args, refresh_interval, output, watch, sigmask,
                    pending, timer, refresh_timer, now, curr_signal, delivered >>

\* putchar('\n'); return 0;
Putchar ==
    /\ pc = "putchar"
    /\ sink' = Append(sink, [ call |-> "putchar", end |-> "\n" ])
    /\ Exit(0, << >>)
    /\ UNCHANGED << parseVars, curr_time, args, refresh_interval, output, watch, sigmask,
                    pending, timer, refresh_timer, now, curr_signal, delivered >>

Program ==
    \/ OutputInit
    \/ ParseArgsDefault
    \/ GetoptD
    \/ GetoptUsage
    \/ GetoptEnd
    \/ StopwatchInit
    \/ StopwatchStart
    \/ Sigprocmask
    \/ TimerCreate
    \/ TimerSettime
    \/ LoopInit
    \/ While
    \/ Sigwaitinfo
    \/ Update
    \/ Putchar

Init ==
    /\ value = << >>
    /\ pst = ParserStart(DefaultInterval)
    /\ args \in ArgLists
    /\ MainStart

Next ==
    \/ Program
    \/ SigwaitinfoError
    \/ Interrupt
    \/ ClockAdvance
    \/ TimerExpire

Spec == Init /\ [][Next]_vars

\* the program is scheduled: a step of main that can be taken is taken
FairSpec == Spec /\ WF_vars(Program)

----------------------------------------------------------------------------
(* The two outputs run on their own, on every Duration of Durations.        *)

\* tv_nsec around a change of the millisecond
NsecSamples ==
    { ms * NSEC_PER_MSEC + r : ms \in { 0, 1, 45, 999 },
                               r \in { 0, 1, NSEC_PER_MSEC - 1 } }

Durations == [ tv_sec : 0..MaxSeconds, tv_nsec : NsecSamples ]

InitRender ==
    /\ value = << >>
    /\ pst = ParserStart(DefaultInterval)
    /\ args = << >>
    /\ pc = "output_update"
    /\ refresh_interval = DefaultInterval
    /\ output \in { "tty", "notty" }
    /\ watch = [ initialized |-> TRUE, started |-> TRUE, start |-> 0 ]
    /\ sigmask = { SIGINT, TIMER_SIGNAL }
    /\ pending = NonePending
    /\ timer = NoTimer
    /\ refresh_timer = Unset
    /\ now = 0
    /\ curr_signal = TIMER_SIGNAL
    /\ curr_time \in Durations
    /\ delivered = << >>
    /\ sink = << >>
    /\ stderr = << >>
    /\ status = 0

\* output.update(&curr_time);
OutputUpdateCall ==
    /\ pc = "output_update"
    /\ sink' = Append(sink, OutputUpdate(output, curr_time))
    /\ Goto("output_updated")
    /\ UNCHANGED << parseVars, curr_time, args, refresh_interval, output, watch,
                    sigmask, pending, timer, refresh_timer, now, curr_signal,
                    delivered >>

NextRender == OutputUpdateCall

SpecRender == InitRender /\ [][NextRender]_vars

----------------------------------------------------------------------------
(* What the claims say about strings and durations.                         *)

AllDigits(s) == \A k \in 1..Len(s) : isdigit(s[k])

HasDot(s) == \E k \in 1..Len(s) : s[k] = "."

\* the position of the first '.' of a string that has one
DotPos(s) == CHOOSE k \in 1..Len(s) : s[k] = "." /\ \A j \in 1..(k - 1) : s[j] # "."

IntegerDigits(s) == IF HasDot(s) THEN SubSeq(s, 1, DotPos(s) - 1) ELSE s

FractionDigits(s) == IF HasDot(s) THEN SubSeq(s, DotPos(s) + 1, Len(s)) ELSE << >>

\* "<digits>": one or more digits and nothing else
IsDigitString(s) == Len(s) >= 1 /\ AllDigits(s)

\* "<digits>.<digits>" with at least one digit on each side
IsDecimalString(s) ==
    /\ HasDot(s)
    /\ IsDigitString(IntegerDigits(s))
    /\ IsDigitString(FractionDigits(s))

\* a decimal point followed by zero digits: "." and "<digits>."
IsTrailingDot(s) ==
    /\ Len(s) >= 1
    /\ s[Len(s)] = "."
    /\ AllDigits(SubSeq(s, 1, Len(s) - 1))

\* a character that is neither a digit nor the single separating '.'
HasForeignChar(s) ==
    \E k \in 1..Len(s) :
        /\ ~isdigit(s[k])
        /\ s[k] = "." => \E j \in 1..(k - 1) : s[j] = "."

\* the exact decimal value of a digit string, as limbs without high zeros
RECURSIVE BigMul10Add(_, _)
BigMul10Add(b, a) ==
    IF b = << >>
    THEN IF a = 0 THEN << >> ELSE << a >>
    ELSE LET r == b[1] * 10 + a
         IN  << r % LimbBase >> \o BigMul10Add(Tail(b), r \div LimbBase)

RECURSIVE StripZeros(_)
StripZeros(b) ==
    IF b # << >> /\ b[Len(b)] = 0 THEN StripZeros(SubSeq(b, 1, Len(b) - 1)) ELSE b

RECURSIVE DecimalValue(_)
DecimalValue(ds) ==
    IF ds = << >> THEN << >>
    ELSE StripZeros(BigMul10Add(DecimalValue(SubSeq(ds, 1, Len(ds) - 1)),
                                DigitVal(ds[Len(ds)])))

\* the long x holds exactly the decimal value of the digit string ds
LongEquals(x, ds) == ~LongIsNegative(x) /\ StripZeros(x) = DecimalValue(ds)

RECURSIVE Pow10(_)
Pow10(n) == IF n = 0 THEN 1 ELSE 10 * Pow10(n - 1)

\* sum over k = 1..min(n, 9) of f_k * 10^(9 - k)
RECURSIVE FractionValue(_)
FractionValue(fs) ==
    IF fs = << >> THEN 0
    ELSE IF Len(fs) > 9 THEN FractionValue(SubSeq(fs, 1, 9))
    ELSE FractionValue(SubSeq(fs, 1, Len(fs) - 1))
         + DigitVal(fs[Len(fs)]) * Pow10(9 - Len(fs))

Returned == pst.pc \in { "return_0", "return_m1" }

----------------------------------------------------------------------------
(* Claims about parse_time_interval, checked under SpecParse.               *)

C6_ForeignCharRejected ==
    (Returned /\ HasForeignChar(value)) => pst.pc = "return_m1"

\* C7 (as stated): every input that starts with '.', like the empty string,
\* makes parse_time_interval return an error.
C7_IntegerDigitRequired ==
    (ParserDone(pst) /\ (value = << >> \/ CharAt(value, 0) = ".")) =>
        pst.pc = "return_m1"

\* C7 (amended): the empty string and the lone "." make parse_time_interval
\* return an error; an input ".<digits>" with at least one fractional digit
\* is accepted, with tv_sec = 0 and tv_nsec weighted from the digits.
C7_SomeDigitRequired ==
    /\ (ParserDone(pst) /\ value \in { << >>, << "." >> }) => pst.pc = "return_m1"
    /\ (ParserDone(pst) /\ Len(value) >= 2 /\ CharAt(value, 0) = "."
            /\ AllDigits(Tail(value))) =>
            /\ pst.pc = "return_0"
            /\ LongIsZero(pst.result.tv_sec)
            /\ pst.result.tv_nsec = FractionValue(Tail(value))

C7_Witness ==
    /\ pst.pc = "return_0"
    /\ value = << ".", "5" >>
    /\ pst.result.tv_nsec = 5 * NSEC_PER_DECISEC

\* C8: "<digits>" succeeds with tv_sec the decimal value of the digits and
\* tv_nsec = 0; "<digits>.<f1..fn>", n >= 1, succeeds with tv_sec the value of
\* the integer digits and tv_nsec = sum over k = 1..min(n, 9) of f_k * 10^(9-k).
C8_ExactValue ==
    (ParserDone(pst) /\ (IsDigitString(value) \/ IsDecimalString(value))) =>
        /\ pst.pc = "return_0"
        /\ LongEquals(pst.result.tv_sec, IntegerDigits(value))
        /\ pst.result.tv_nsec = FractionValue(FractionDigits(value))

----------------------------------------------------------------------------
(* What the claims say about the display loop.                              *)

\* the display loop is Running: the timer is set and no Stop has been taken
Running == pc \in { "loop", "while", "sigwaitinfo", "update" }

\* the display loop is Stopped
Stopped == pc = "exited" /\ status = 0

\* the wait has failed
WaitFailed == pc = "exited" /\ curr_signal = -1

\* the elapsed-time renders the sink has received
Renders == Cardinality({ k \in DOMAIN sink : sink[k].call = "printf" })

\* the Tick events sigwaitinfo has returned
Ticks == Cardinality({ k \in DOMAIN delivered : delivered[k].signal = TIMER_SIGNAL })

\* main has reported that the stopwatch or the timer could not be set up
SetupFailed ==
    \E k \in DOMAIN stderr :
        stderr[k] \in { "couldn't init stopwatch", "could't init refresh timer" }

ZeroInterval(ts) == LongIsZero(ts.tv_sec) /\ ts.tv_nsec = 0

----------------------------------------------------------------------------
(* Claims about the display loop, checked under Spec and FairSpec.          *)

\* C1 (as stated): a render is forwarded to the sink only for Tick events, a
\* Stop is followed by the final newline alone: whenever no render is
\* outstanding, the number of renders equals the number of Ticks consumed.
C1_RendersEqualTicks == pc # "update" => Renders = Ticks

\* C1 (amended): a render is forwarded to the sink for every event that
\* sigwaitinfo returns, the Stop included: the number of renders equals the
\* number of events consumed (one less while a render is outstanding), and a
\* Stopped loop has rendered once per Tick and once more for the Stop, the
\* final newline coming last.
C1_RenderPerEvent ==
    /\ pc # "update" => Renders = Len(delivered)
    /\ pc = "update" => Renders + 1 = Len(delivered)
    /\ Stopped =>
        /\ Renders = Ticks + 1
        /\ Len(sink) = Renders + 1
        /\ sink[Len(sink)].call = "putchar"

C1_Witness == Stopped /\ Ticks >= 2 /\ Renders = Ticks + 1

\* C2: ticks coalesce: whatever the number of expiries between two waits, at
\* most one timer signal is pending, and a wait that returns a Tick leaves no
\* timer signal pending behind it.
C2_TicksCoalesce ==
    /\ [](pending[TIMER_SIGNAL] <= 1)
    /\ [][(pc = "sigwaitinfo" /\ pc' = "update" /\ curr_signal' = TIMER_SIGNAL)
            => pending'[TIMER_SIGNAL] = 0]_vars

\* a Tick that stands for at least two expiries has been returned, and the
\* program is rendering it with no timer signal left pending
C2_Witness ==
    /\ pc = "update"
    /\ curr_signal = TIMER_SIGNAL
    /\ delivered[Len(delivered)].overrun >= 1
    /\ pending[TIMER_SIGNAL] = 0

\* C3: whenever SIGINT is pending at the moment sigwaitinfo returns, it returns
\* SIGINT, also when a timer signal is pending too: no Tick is delivered once
\* the interrupt is pending.
C3_StopFirst ==
    \A k \in DOMAIN delivered :
        delivered[k].pending[SIGINT] > 0 => delivered[k].signal = SIGINT

C3_Witness ==
    \E k \in DOMAIN delivered :
        /\ delivered[k].signal = SIGINT
        /\ delivered[k].pending[TIMER_SIGNAL] > 0

\* C4: no stop is lost: a pending SIGINT leaves the pending set only by being
\* returned from sigwaitinfo, and once SIGINT is pending in a Running loop the
\* loop reaches Stopped, unless the wait itself fails.
C4_StopNotLost ==
    /\ [][(pending[SIGINT] > 0 /\ pending'[SIGINT] = 0)
            => (pc' = "update" /\ curr_signal' = SIGINT)]_vars
    /\ (pending[SIGINT] > 0 /\ Running) ~> (Stopped \/ WaitFailed)

\* the loop has rendered a Tick and then stopped on an interrupt that was
\* pending together with the next timer signal
C4_Witness ==
    /\ Stopped
    /\ Ticks >= 1
    /\ delivered[Len(delivered)].signal = SIGINT
    /\ delivered[Len(delivered)].pending[TIMER_SIGNAL] > 0

\* C9: the refresh interval that arms the timer is strictly greater than zero:
\* a zero -d value never reaches timer_settime, so no loop runs on it.
C9_PositiveInterval == Running => ~ZeroInterval(refresh_interval)

\* C10: the loop is Running only after the stopwatch has been started and the
\* timer created and set with the refresh interval, nothing having failed; and
\* when the stopwatch or the timer cannot be set up, main returns -1 without
\* having waited and without anything written to the sink.
C10_RunningAfterSetup ==
    /\ Running =>
        /\ watch.initialized
        /\ watch.started
        /\ timer.created
        /\ refresh_timer = TimerId
        /\ timer.it_interval = TimespecNs(refresh_interval)
        /\ ~SetupFailed
    /\ SetupFailed =>
        /\ pc = "exited"
        /\ status = -1
        /\ delivered = << >>
        /\ sink = << >>

\* timer_settime has failed on a timer that was created
C10_Witness ==
    /\ pc = "exited"
    /\ timer.created
    /\ stderr = << "could't init refresh timer" >>
    /\ sink = << >>

----------------------------------------------------------------------------
(* Claims about the arithmetic of parse_time_interval, under SpecParse.     *)

\* the digits the integer loop has consumed: the longest digit prefix
RECURSIVE LeadingDigits(_)
LeadingDigits(s) ==
    IF s # << >> /\ isdigit(Head(s)) THEN << Head(s) >> \o LeadingDigits(Tail(s))
    ELSE << >>

\* C11: the seconds never overflow silently: whenever parse_time_interval
\* returns success, tv_sec is the exact decimal value of the integer digits,
\* never a wrapped or negative value.
C11_NoSilentOverflow ==
    pst.pc = "return_0" =>
        LongEquals(pst.result.tv_sec, LeadingDigits(value))

----------------------------------------------------------------------------
(* Claims about the timer and the renderers.                                *)

\* C12: the cadence does not drift: the timer is armed once, with first expiry
\* and period equal to the refresh interval d, the loop never arms it again,
\* and its N-th expiry happens N * d after the arming, however late the loop
\* consumes the ticks.
C12_NoDrift ==
    /\ [](timer.armed =>
            /\ timer.it_interval = TimespecNs(refresh_interval)
            /\ timer.it_value =
                   timer.armed_at + (timer.expirations + 1) * timer.it_interval)
    /\ [][timer'.expirations = timer.expirations + 1 =>
            now = timer.armed_at + timer'.expirations * timer.it_interval]_vars
    /\ [][timer.armed =>
            /\ timer'.armed
            /\ timer'.armed_at = timer.armed_at
            /\ timer'.it_interval = timer.it_interval]_vars

\* the timer has expired three times although the loop was late for one tick
C12_Witness ==
    /\ timer.expirations >= 3
    /\ timer.overrun >= 1
    /\ Ticks >= 1
    /\ now = timer.armed_at + timer.expirations * timer.it_interval

C14_ArmsCreatedTimer ==
    timer.settime_id # "unset" =>
        /\ timer.settime_id = refresh_timer
        /\ timer.armed =>
               /\ timer.it_interval = TimespecNs(refresh_interval)
               /\ timer.it_value - timer.it_interval * (timer.expirations + 1)
                      = timer.armed_at

----------------------------------------------------------------------------
(* Claims about the end of the display loop and about the signal mask.      *)

\* sigwaitinfo has returned SIGINT
StopConsumed == \E k \in DOMAIN delivered : delivered[k].signal = SIGINT

\* the newlines putchar has written
Newlines == Cardinality({ k \in DOMAIN sink : sink[k].call = "putchar" })

\* C15 (as stated): once the loop has consumed a Stop, no further wait,
\* elapsed-time sample or render ever occurs.
C15_NothingAfterStop ==
    [][StopConsumed =>
        /\ delivered' = delivered
        /\ curr_time' = curr_time
        /\ Renders' = Renders]_vars

\* C15 (amended): once the loop has consumed a Stop it never waits again, it
\* samples and renders once more (the render of the Stop itself) and then
\* writes the final newline; the newline is written exactly when Stopped is
\* reached, once, after every render, and nothing happens after Stopped.
C15_StoppedTerminal ==
    /\ [][StopConsumed => delivered' = delivered]_vars
    /\ [][StopConsumed /\ (Renders' # Renders \/ curr_time' # curr_time) =>
            /\ pc = "update"
            /\ Renders = Len(delivered) - 1
            /\ Renders' = Len(delivered)]_vars
    /\ [](Newlines <= 1)
    /\ [](Stopped <=> Newlines = 1)
    /\ [](Stopped =>
            /\ StopConsumed
            /\ Renders = Len(delivered)
            /\ sink[Len(sink)].call = "putchar")
    /\ [][~Stopped]_vars

C15_Witness ==
    /\ Stopped
    /\ Newlines = 1
    /\ Renders >= 3
    /\ sink[Len(sink)].call = "putchar"
    /\ \A k \in 1..(Len(sink) - 1) : sink[k].call = "printf"

\* C16: when sigwaitinfo returns -1 the loop ends at once with an error status:
\* the message is written, nothing is sampled or rendered, no newline is
\* written, Stopped is not reached, and the wait is never tried again.
C16_WaitFailureFatal ==
    /\ [][curr_signal' = -1 /\ curr_signal # -1 =>
            /\ pc = "sigwaitinfo"
            /\ pc' = "exited"
            /\ status' = -1
            /\ stderr' = Append(stderr, "error calling sigwaitinfo")
            /\ sink' = sink
            /\ curr_time' = curr_time
            /\ delivered' = delivered]_vars
    /\ [](WaitFailed => status = -1 /\ ~Stopped /\ Newlines = 0)
    /\ [][~WaitFailed]_vars

C16_Witness ==
    /\ WaitFailed
    /\ Ticks >= 1
    /\ Renders = Ticks
    /\ stderr = << "error calling sigwaitinfo" >>

\* C17: whenever the refresh timer exists or is armed, SIGINT and the timer
\* signal are blocked, and the mask does not change afterwards; so neither
\* signal is ever delivered asynchronously, a pending one leaves the pending
\* set only by being returned from sigwaitinfo.
C17_SignalsBlocked ==
    /\ [](timer.created \/ timer.armed =>
            /\ { SIGINT, TIMER_SIGNAL } \subseteq sigmask
            /\ pc # "killed")
    /\ [][timer.created => sigmask' = sigmask]_vars
    /\ [][\A sig \in { SIGINT, TIMER_SIGNAL } :
            pending'[sig] < pending[sig] =>
                pc = "sigwaitinfo" /\ curr_signal' = sig]_vars

C17_Witness ==
    /\ timer.armed
    /\ pc = "sigwaitinfo"
    /\ pending[SIGINT] = 1
    /\ pending[TIMER_SIGNAL] = 1
    /\ { SIGINT, TIMER_SIGNAL } \subseteq sigmask

----------------------------------------------------------------------------
(* Claims about the results and the indices of parse_time_interval.         *)

\* C18: the nanoseconds are always in range: the default interval and every
\* Duration parse_time_interval returns on success have 0 <= tv_nsec <=
\* 999999999, and so has the fractional part at every step.
C18_NsecInRange ==
    /\ DefaultInterval.tv_nsec >= 0
    /\ DefaultInterval.tv_nsec < NSEC_PER_SEC
    /\ pst.result.tv_nsec >= 0
    /\ pst.result.tv_nsec < NSEC_PER_SEC
    /\ pst.fractional_part >= 0
    /\ pst.fractional_part < NSEC_PER_SEC

C18_Witness ==
    /\ pst.pc = "return_0"
    /\ pst.weight = 0
    /\ pst.result.tv_nsec = NSEC_PER_SEC - 1

\* C19: parse_time_interval ends on every string, and its index i only grows
\* and stays within 0..length(value), so that no character after the
\* terminator is read, also when it leaves after the ninth fractional digit.
C19_TerminatesInBounds ==
    /\ [](pst.i >= 0 /\ pst.i <= Len(value))
    /\ [][pst'.i >= pst.i]_vars
    /\ <>ParserDone(pst)

\* the function has left after the ninth fractional digit of a longer string
C19_Witness ==
    /\ pst.pc = "return_0"
    /\ pst.weight = 0
    /\ pst.fractional_part # 0
    /\ pst.i + 1 < Len(value)

\* C20: parse_time_interval writes *result only on success: a -d that is
\* rejected leaves refresh_interval as it was, the default or the value of an
\* earlier -d.
C20_ResultOnlyOnSuccess ==
    [][(pc = "getopt" /\ args # << >> /\ Head(args).opt = "d" /\ pc' = "exited")
          => refresh_interval' = refresh_interval]_vars

C20_Witness ==
    /\ pc = "exited"
    /\ status = 1
    /\ stderr = << "invalid value for option", "usage" >>
    /\ refresh_interval = [ tv_sec |-> LongZero, tv_nsec |-> 2 * NSEC_PER_DECISEC ]

====
